---- MODULE Spec2Model ----
(***************************************************************************)
(* State-machine model of backend/data_simulator.py (class DataSimulator): *)
(* the sleep-stage transition engine, the apnea scheduler and the          *)
(* per-epoch orchestration of generate_epoch_data.                         *)
(*                                                                         *)
(* Stages are the integer codes of the source: 0 Wake, 1 N1, 2 N2, 3 N3,   *)
(* 4 REM.  Probabilities, uniform draws and the tendency traits are held   *)
(* in thousandths, so that `np.random.random() < 0.7` reads `u < 700`.     *)
(* Python's None is the value None (-1000), outside every epoch range.     *)
(*                                                                         *)
(* The two waveforms of an epoch are numpy arrays of n_samples floats;     *)
(* the model keeps of each array its length, the stage and apnea flag it   *)
(* was synthesised for, and (for heart rate) one sample, in tenths of a    *)
(* beat per minute.  An exception leaving a method is the value of         *)
(* `raised` ("" when the call returned).                                   *)
(*                                                                         *)
(* The last part models backend/main.py: the sessions and epochs tables,   *)
(* the websocket handlers with their monitoring loops, the connection      *)
(* manager and the process-wide SHHS loader.  A handler runs on the        *)
(* asyncio event loop, so one step of it is the code between two awaits.   *)
(***************************************************************************)
EXTENDS Integers, Sequences, FiniteSets, TLC

VARIABLES
    fs,                   \* sampling_rate passed to __init__
    epoch_duration,
    n_samples,
    traits,               \* wake_time and the other traits drawn by __init__
    current_epoch,
    current_stage,
    last_stage,
    stage_duration,
    sleep_onset_epoch,
    time_in_n1,
    time_in_n2,
    has_entered_n3,
    last_apnea_epoch,
    consecutive_apneas,
    total_apneas,
    record,               \* the tuple returned by the latest generate_epoch_data
    rec_apnea_run,        \* history: length of the run of apnea records ending at the latest record
    rec_apnea_count,      \* history: number of apnea records returned so far
    rec_last_apnea,       \* history: epoch index of the latest apnea record, or None
    rec_count,            \* history: number of generate_epoch_data calls that returned
    raised,               \* exception raised by the latest generate_epoch_data, "" if none
    valid_result,         \* result of the latest direct call of get_valid_next_stages
    call_args,            \* arguments of the direct calls of the signal methods
    eeg_result,           \* result of the latest direct call of generate_eeg_signal
    hr_result,            \* result of the latest direct call of generate_hr_signal
    seed,                 \* seed of the process-wide np.random stream
    rng,                  \* number of blocks of draws taken from np.random so far
    other,                \* a second DataSimulator of the same process
    sleep_sessions,       \* main.py: rows of the table sleep_sessions, by session_id
    sleep_epochs,         \* main.py: rows of the table sleep_epochs
    active_connections,   \* main.py: manager.active_connections
    websockets,           \* main.py: the calls of websocket_endpoint, by connection
    shhs_loader           \* main.py: the SHHSDataLoader of the process

simulator_vars ==
        <<fs, epoch_duration, n_samples,
          traits, current_epoch, current_stage, last_stage, stage_duration,
          sleep_onset_epoch, time_in_n1, time_in_n2, has_entered_n3,
          last_apnea_epoch, consecutive_apneas, total_apneas,
          record, rec_apnea_run, rec_apnea_count, rec_last_apnea, rec_count,
          raised, valid_result, call_args, eeg_result, hr_result,
          seed, rng, other>>

server_vars ==
    <<sleep_sessions, sleep_epochs, active_connections, websockets, shhs_loader>>

vars == <<simulator_vars, server_vars>>

None == -1000

Wake == 0
N1 == 1
N2 == 2
N3 == 3
REM == 4
Stages == {Wake, N1, N2, N3, REM}

(***************************************************************************)
(* Bounds of the model.                                                    *)
(***************************************************************************)
\* epochs generated from the constructed generator
MaxEpoch == 46
\* epochs generated from the late-night state
MaxLateTicks == 45
\* calls of generate_epoch_data followed from each of the MidNights states
MaxMidTicks == 6
\* apnea epochs a run may contain (caps total_apneas)
MaxApneas == 3
\* stage_duration and current_epoch of the states get_valid_next_stages is called on directly
MaxDuration == 11
MaxAsleep == 182

\* np.random.randint(10, 25): wake_time is drawn from 10..24
WakeTimeLow == 10
WakeTimeHigh == 25
WakeTimes == {w \in {10, 15, 24} : WakeTimeLow <= w /\ w < WakeTimeHigh}

\* np.random.uniform(0.7, 1.3), uniform(0.8, 1.2), uniform(0.5, 1.5), in thousandths
DeepSleepTendencies == {1000}
RemTendencies == {1000}
ApneaTendencies == {1000}
\* np.random.uniform(0.6, 1.2), uniform(0.8, 1.2), uniform(0.8, 1.2), in thousandths
SpindleFrequencies == {900}
DeltaAmplitudes == {1000}
StageStabilities == {1000}

\* the default of the sampling_rate parameter, and the hard-coded epoch length
DefaultSamplingRate == 128
EpochDuration == 30
\* sampling rates a caller may pass to __init__
SamplingRates == {-1, 0, 1, 3, 4, DefaultSamplingRate}

\* outcomes of np.random.random(), in thousandths of [0, 1)
Draws == {0, 999}
\* outcomes of np.random.randint(4, 8)
MinGaps_from_three == 3..7

MinGaps == 4..7

SeqToSet(s) == {s[i] : i \in 1..Len(s)}

(***************************************************************************)
(* The generator object: the fields of `self` read and written by the      *)
(* methods below.                                                          *)
(***************************************************************************)
Self ==
    [fs                  |-> fs,
     epoch_duration      |-> epoch_duration,
     n_samples           |-> n_samples,
     deep_sleep_tendency |-> traits.deep_sleep_tendency,
     rem_tendency        |-> traits.rem_tendency,
     apnea_tendency      |-> traits.apnea_tendency,
     wake_time           |-> traits.wake_time,
     spindle_frequency   |-> traits.spindle_frequency,
     delta_amplitude     |-> traits.delta_amplitude,
     stage_stability     |-> traits.stage_stability,
     current_epoch       |-> current_epoch,
     current_stage       |-> current_stage,
     last_stage          |-> last_stage,
     stage_duration      |-> stage_duration,
     sleep_onset_epoch   |-> sleep_onset_epoch,
     time_in_n1          |-> time_in_n1,
     time_in_n2          |-> time_in_n2,
     has_entered_n3      |-> has_entered_n3,
     last_apnea_epoch    |-> last_apnea_epoch,
     consecutive_apneas  |-> consecutive_apneas,
     total_apneas        |-> total_apneas]

\* time_asleep / time_since_sleep: epochs since sleep onset, 0 before it
time_asleep(self) ==
    IF self.sleep_onset_epoch = None THEN 0
    ELSE self.current_epoch - self.sleep_onset_epoch

(***************************************************************************)
(* DataSimulator.get_valid_next_stages, by branch of the current stage.    *)
(* The result is the Python list, in order.                                *)
(***************************************************************************)
valid_from_n1(self) ==
    IF self.stage_duration < 2 THEN <<1>> ELSE <<0, 1, 2>>

valid_from_n2_n3_early(self) ==
    IF self.stage_duration < 3 THEN <<2>>
    ELSE <<1, 2>>
         \o (IF time_asleep(self) >= 10 THEN <<3>> ELSE <<>>)
         \o (IF time_asleep(self) > 180 /\ self.has_entered_n3 THEN <<4>> ELSE <<>>)

valid_from_n2(self) ==
    IF self.stage_duration < 3 THEN <<2>>
    ELSE <<1, 2>>
         \o (IF time_asleep(self) > 10 THEN <<3>> ELSE <<>>)
         \o (IF time_asleep(self) > 180 /\ self.has_entered_n3 THEN <<4>> ELSE <<>>)

valid_from_n3(self) ==
    IF self.stage_duration < 10 THEN <<3>> ELSE <<2, 3>>

valid_from_rem_to_wake(self) ==
    IF self.stage_duration < 5 THEN <<4>> ELSE <<0, 4>>

valid_from_rem(self) ==
    IF self.stage_duration < 5 THEN <<4>> ELSE <<2, 4>>

get_valid_next_stages(self, current) ==
    IF current = 0 THEN <<0, 1>>
    ELSE IF current = 1 THEN valid_from_n1(self)
    ELSE IF current = 2 THEN valid_from_n2(self)
    ELSE IF current = 3 THEN valid_from_n3(self)
    ELSE IF current = 4 THEN valid_from_rem(self)
    ELSE <<current>>

(***************************************************************************)
(* DataSimulator.get_next_stage, by branch of the current stage.  u1 and   *)
(* u2 are the outcomes of the (at most two) np.random.random() calls of    *)
(* the branch taken.  Each result is the returned stage and the object     *)
(* with the fields the call assigned.                                      *)
(***************************************************************************)
wake_logic_onset_overwrite(self) ==
    IF self.current_epoch >= self.wake_time
    THEN [ret |-> 1, self |-> [self EXCEPT !.sleep_onset_epoch = self.current_epoch]]
    ELSE [ret |-> 0, self |-> self]

wake_logic_late_onset(self) ==
    IF self.sleep_onset_epoch = None THEN
        IF self.current_epoch > self.wake_time
        THEN [ret |-> 1, self |-> [self EXCEPT !.sleep_onset_epoch = self.current_epoch]]
        ELSE [ret |-> 0, self |-> self]
    ELSE
        IF self.stage_duration >= 2 THEN [ret |-> 1, self |-> self]
        ELSE [ret |-> 0, self |-> self]


\* an arousal lasts one epoch longer
wake_logic_long_arousal(self) ==
    IF self.sleep_onset_epoch = None THEN
        IF self.current_epoch >= self.wake_time
        THEN [ret |-> 1, self |-> [self EXCEPT !.sleep_onset_epoch = self.current_epoch]]
        ELSE [ret |-> 0, self |-> self]
    ELSE
        IF self.stage_duration >= 3 THEN [ret |-> 1, self |-> self]
        ELSE [ret |-> 0, self |-> self]

wake_logic(self) ==
    IF self.sleep_onset_epoch = None THEN
        IF self.current_epoch >= self.wake_time
        THEN [ret |-> 1, self |-> [self EXCEPT !.sleep_onset_epoch = self.current_epoch]]
        ELSE [ret |-> 0, self |-> self]
    ELSE
        IF self.stage_duration >= 2 THEN [ret |-> 1, self |-> self]
        ELSE [ret |-> 0, self |-> self]


\* N2 is forced one epoch later
n1_logic_forced_late(self, u1, u2) ==
    IF self.stage_duration < 2 THEN [ret |-> 1, self |-> self]
    ELSE IF self.stage_duration >= 3 /\ u1 < 700 THEN [ret |-> 2, self |-> self]
    ELSE IF self.stage_duration >= 7 THEN [ret |-> 2, self |-> self]
    ELSE IF u2 < 50 THEN [ret |-> 0, self |-> self]
    ELSE [ret |-> 1, self |-> self]

n1_logic(self, u1, u2) ==
    IF self.stage_duration < 2 THEN [ret |-> 1, self |-> self]
    ELSE IF self.stage_duration >= 3 /\ u1 < 700 THEN [ret |-> 2, self |-> self]
    ELSE IF self.stage_duration >= 6 THEN [ret |-> 2, self |-> self]
    ELSE IF u2 < 50 THEN [ret |-> 0, self |-> self]
    ELSE [ret |-> 1, self |-> self]


\* the window of the first descent to N3 stays open until 62 epochs asleep

\* the first descent to N3 is open again after N3 was left
n2_logic_reenter_n3(self, valid_stages, u1, u2) ==
    LET early == time_asleep(self) < 60
    IN
    IF self.stage_duration < 3 THEN [ret |-> 2, self |-> self]
    ELSE IF /\ early
            /\ 3 \in SeqToSet(valid_stages) /\ self.stage_duration > 5
            /\ u1 * 1000 < 600 * self.deep_sleep_tendency
         THEN [ret |-> 3, self |-> self]
    ELSE IF /\ ~early
            /\ time_asleep(self) > 200 /\ self.has_entered_n3
            /\ 4 \in SeqToSet(valid_stages) /\ self.stage_duration > 10
            /\ u1 * 1000 < 400 * self.rem_tendency
         THEN [ret |-> 4, self |-> self]
    ELSE IF self.stage_duration > 20 /\ u2 < 100 THEN [ret |-> 1, self |-> self]
    ELSE [ret |-> 2, self |-> self]

\* the first descent to N3 has no time limit
n2_logic_no_window(self, valid_stages, u1, u2) ==
    LET early == ~self.has_entered_n3
    IN
    IF self.stage_duration < 3 THEN [ret |-> 2, self |-> self]
    ELSE IF /\ early
            /\ 3 \in SeqToSet(valid_stages) /\ self.stage_duration > 5
            /\ u1 * 1000 < 600 * self.deep_sleep_tendency
         THEN [ret |-> 3, self |-> self]
    ELSE IF /\ ~early
            /\ time_asleep(self) > 200 /\ self.has_entered_n3
            /\ 4 \in SeqToSet(valid_stages) /\ self.stage_duration > 10
            /\ u1 * 1000 < 400 * self.rem_tendency
         THEN [ret |-> 4, self |-> self]
    ELSE IF self.stage_duration > 20 /\ u2 < 100 THEN [ret |-> 1, self |-> self]
    ELSE [ret |-> 2, self |-> self]

n2_logic_long_window(self, valid_stages, u1, u2) ==
    LET early == time_asleep(self) < 62 /\ ~self.has_entered_n3
    IN
    IF self.stage_duration < 3 THEN [ret |-> 2, self |-> self]
    ELSE IF /\ early
            /\ 3 \in SeqToSet(valid_stages) /\ self.stage_duration > 5
            /\ u1 * 1000 < 600 * self.deep_sleep_tendency
         THEN [ret |-> 3, self |-> self]
    ELSE IF /\ ~early
            /\ time_asleep(self) > 200 /\ self.has_entered_n3
            /\ 4 \in SeqToSet(valid_stages) /\ self.stage_duration > 10
            /\ u1 * 1000 < 400 * self.rem_tendency
         THEN [ret |-> 4, self |-> self]
    ELSE IF self.stage_duration > 20 /\ u2 < 100 THEN [ret |-> 1, self |-> self]
    ELSE [ret |-> 2, self |-> self]

\* REM opens at 200 epochs asleep
n2_logic_rem_at_200(self, valid_stages, u1, u2) ==
    LET early == time_asleep(self) < 60 /\ ~self.has_entered_n3
    IN
    IF self.stage_duration < 3 THEN [ret |-> 2, self |-> self]
    ELSE IF /\ early
            /\ 3 \in SeqToSet(valid_stages) /\ self.stage_duration > 5
            /\ u1 * 1000 < 600 * self.deep_sleep_tendency
         THEN [ret |-> 3, self |-> self]
    ELSE IF /\ ~early
            /\ time_asleep(self) >= 200 /\ self.has_entered_n3
            /\ 4 \in SeqToSet(valid_stages) /\ self.stage_duration > 10
            /\ u1 * 1000 < 400 * self.rem_tendency
         THEN [ret |-> 4, self |-> self]
    ELSE IF self.stage_duration > 20 /\ u2 < 100 THEN [ret |-> 1, self |-> self]
    ELSE [ret |-> 2, self |-> self]

n2_logic(self, valid_stages, u1, u2) ==
    LET early == time_asleep(self) < 60 /\ ~self.has_entered_n3
    IN
    IF self.stage_duration < 3 THEN [ret |-> 2, self |-> self]
    ELSE IF /\ early
            /\ 3 \in SeqToSet(valid_stages) /\ self.stage_duration > 5
            /\ u1 * 1000 < 600 * self.deep_sleep_tendency
         THEN [ret |-> 3, self |-> self]
    ELSE IF /\ ~early
            /\ time_asleep(self) > 200 /\ self.has_entered_n3
            /\ 4 \in SeqToSet(valid_stages) /\ self.stage_duration > 10
            /\ u1 * 1000 < 400 * self.rem_tendency
         THEN [ret |-> 4, self |-> self]
    ELSE IF self.stage_duration > 20 /\ u2 < 100 THEN [ret |-> 1, self |-> self]
    ELSE [ret |-> 2, self |-> self]


\* the chance exit of N3 goes to N1

\* the exit of N3 is forced one epoch later
n3_logic_forced_late(self, u1) ==
    LET self3 == [self EXCEPT !.has_entered_n3 = TRUE]
    IN  IF self.stage_duration < 10 THEN [ret |-> 3, self |-> self3]
        ELSE IF self.stage_duration > 20 /\ u1 < 200 THEN [ret |-> 2, self |-> self3]
        ELSE IF self.stage_duration > 41 THEN [ret |-> 2, self |-> self3]
        ELSE [ret |-> 3, self |-> self3]

n3_logic_to_n1(self, u1) ==
    LET self3 == [self EXCEPT !.has_entered_n3 = TRUE]
    IN  IF self.stage_duration < 10 THEN [ret |-> 3, self |-> self3]
        ELSE IF self.stage_duration > 20 /\ u1 < 200 THEN [ret |-> 1, self |-> self3]
        ELSE IF self.stage_duration > 40 THEN [ret |-> 2, self |-> self3]
        ELSE [ret |-> 3, self |-> self3]

n3_logic(self, u1) ==
    LET self3 == [self EXCEPT !.has_entered_n3 = TRUE]
    IN  IF self.stage_duration < 10 THEN [ret |-> 3, self |-> self3]
        ELSE IF self.stage_duration > 20 /\ u1 < 200 THEN [ret |-> 2, self |-> self3]
        ELSE IF self.stage_duration > 40 THEN [ret |-> 2, self |-> self3]
        ELSE [ret |-> 3, self |-> self3]


\* the required minimum stops growing after the first 180 epochs asleep
rem_logic_fixed_minimum(self, u1) ==
    LET min_rem == IF time_asleep(self) < 180 THEN 10 ELSE 20
    IN  IF self.stage_duration < 5 THEN [ret |-> 4, self |-> self]
        ELSE IF self.stage_duration > min_rem /\ u1 < 150 THEN [ret |-> 2, self |-> self]
        ELSE IF self.stage_duration > min_rem + 20 THEN [ret |-> 2, self |-> self]
        ELSE [ret |-> 4, self |-> self]

rem_logic(self, u1) ==
    LET min_rem == 10 + (time_asleep(self) \div 180) * 10
    IN  IF self.stage_duration < 5 THEN [ret |-> 4, self |-> self]
        ELSE IF self.stage_duration > min_rem /\ u1 < 150 THEN [ret |-> 2, self |-> self]
        ELSE IF self.stage_duration > min_rem + 20 THEN [ret |-> 2, self |-> self]
        ELSE [ret |-> 4, self |-> self]

get_next_stage(self, u1, u2) ==
    LET valid_stages == get_valid_next_stages(self, self.current_stage)
    IN
    IF Len(valid_stages) = 1 THEN [ret |-> valid_stages[1], self |-> self]
    ELSE IF self.current_stage = 0 THEN wake_logic(self)
    ELSE IF self.current_stage = 1 THEN n1_logic(self, u1, u2)
    ELSE IF self.current_stage = 2 THEN n2_logic(self, valid_stages, u1, u2)
    ELSE IF self.current_stage = 3 THEN n3_logic(self, u1)
    ELSE IF self.current_stage = 4 THEN rem_logic(self, u1)
    ELSE [ret |-> self.current_stage, self |-> self]

(***************************************************************************)
(* DataSimulator.simulate_sleep_stage: the validation of the computed      *)
(* stage, the update of the tracking fields, and the whole call.  The      *)
(* result is the object after the call; the returned stage is its          *)
(* current_stage.                                                          *)
(***************************************************************************)
validate_transition(self, next_stage) ==
    LET valid_stages == get_valid_next_stages(self, self.current_stage)
    IN  IF next_stage \notin SeqToSet(valid_stages)
        THEN (IF Len(valid_stages) > 0 THEN valid_stages[1] ELSE self.current_stage)
        ELSE next_stage

update_tracking_no_reset(self, next_stage) ==
    IF next_stage # self.current_stage THEN
        [self EXCEPT !.current_stage = next_stage,
                     !.time_in_n1 = IF next_stage # 1 THEN 0 ELSE @,
                     !.time_in_n2 = IF next_stage # 2 THEN 0 ELSE @]
    ELSE
        [self EXCEPT !.stage_duration = @ + 1,
                     !.time_in_n1 = IF self.current_stage = 1 THEN @ + 1 ELSE @,
                     !.time_in_n2 = IF self.current_stage = 2 THEN @ + 1 ELSE @]

update_tracking_forget_n3(self, next_stage) ==
    IF next_stage # self.current_stage THEN
        [self EXCEPT !.current_stage = next_stage,
                     !.stage_duration = 0,
                     !.time_in_n1 = IF next_stage # 1 THEN 0 ELSE @,
                     !.time_in_n2 = IF next_stage # 2 THEN 0 ELSE @,
                     !.has_entered_n3 = IF next_stage # 3 THEN FALSE ELSE @]
    ELSE
        [self EXCEPT !.stage_duration = @ + 1,
                     !.time_in_n1 = IF self.current_stage = 1 THEN @ + 1 ELSE @,
                     !.time_in_n2 = IF self.current_stage = 2 THEN @ + 1 ELSE @]

update_tracking(self, next_stage) ==
    IF next_stage # self.current_stage THEN
        [self EXCEPT !.current_stage = next_stage,
                     !.stage_duration = 0,
                     !.time_in_n1 = IF next_stage # 1 THEN 0 ELSE @,
                     !.time_in_n2 = IF next_stage # 2 THEN 0 ELSE @]
    ELSE
        [self EXCEPT !.stage_duration = @ + 1,
                     !.time_in_n1 = IF self.current_stage = 1 THEN @ + 1 ELSE @,
                     !.time_in_n2 = IF self.current_stage = 2 THEN @ + 1 ELSE @]

\* the duration is advanced before the next stage is computed, not after
simulate_sleep_stage_early_increment(self, u1, u2) ==
    LET self0 == [self EXCEPT !.last_stage = self.current_stage,
                              !.stage_duration = @ + 1]
        got == get_next_stage(self0, u1, u2)
        next_stage == validate_transition(got.self, got.ret)
    IN  IF next_stage # got.self.current_stage
        THEN update_tracking(got.self, next_stage)
        ELSE got.self

simulate_sleep_stage(self, u1, u2) ==
    LET self0 == [self EXCEPT !.last_stage = self.current_stage]
        got == get_next_stage(self0, u1, u2)
    IN  update_tracking(got.self, validate_transition(got.self, got.ret))

(***************************************************************************)
(* DataSimulator.simulate_apnea.  min_gap is the outcome of                *)
(* np.random.randint(4, 8); u3 and u4 are the outcomes of the              *)
(* np.random.random() calls of the demo branch and of the final draw.      *)
(* Probabilities are in thousandths.                                       *)
(***************************************************************************)
base_probs(sleep_stage) ==
    IF sleep_stage = 1 THEN 10
    ELSE IF sleep_stage = 2 THEN 15
    ELSE IF sleep_stage = 3 THEN 5
    ELSE IF sleep_stage = 4 THEN 25
    ELSE 10

\* the early returns: wake, two consecutive apneas, minimum gap after a cluster
apnea_blocked_no_wake_check(self, sleep_stage, min_gap) ==
    \/ self.consecutive_apneas >= 2
    \/ /\ self.consecutive_apneas = 0
       /\ self.current_epoch - self.last_apnea_epoch < min_gap

apnea_blocked_cap_off(self, sleep_stage, min_gap) ==
    \/ sleep_stage = 0
    \/ self.consecutive_apneas > 2
    \/ /\ self.consecutive_apneas = 0
       /\ self.current_epoch - self.last_apnea_epoch < min_gap

apnea_blocked_gap_in_cluster(self, sleep_stage, min_gap) ==
    \/ sleep_stage = 0
    \/ self.consecutive_apneas >= 2
    \/ /\ self.consecutive_apneas # 0
       /\ self.current_epoch - self.last_apnea_epoch < min_gap

apnea_blocked(self, sleep_stage, min_gap) ==
    \/ sleep_stage = 0
    \/ self.consecutive_apneas >= 2
    \/ /\ self.consecutive_apneas = 0
       /\ self.current_epoch - self.last_apnea_epoch < min_gap

\* the demo-visibility branch returns True

\* the first demo apnea is drawn like the second

\* no apnea is forced in the first epochs
demo_apnea_off(self, u3) == FALSE

demo_apnea_first_by_chance(self, u3) ==
    /\ self.current_epoch < 50 /\ self.total_apneas < 2
    /\ IF self.current_epoch > 25 /\ self.total_apneas = 0
       THEN self.current_epoch - self.last_apnea_epoch >= 6 /\ u3 < 300
       ELSE /\ self.current_epoch > 35 /\ self.total_apneas = 1
            /\ self.current_epoch - self.last_apnea_epoch >= 6
            /\ u3 < 300

demo_apnea(self, u3) ==
    /\ self.current_epoch < 50 /\ self.total_apneas < 2
    /\ IF self.current_epoch > 25 /\ self.total_apneas = 0
       THEN self.current_epoch - self.last_apnea_epoch >= 6
       ELSE /\ self.current_epoch > 35 /\ self.total_apneas = 1
            /\ self.current_epoch - self.last_apnea_epoch >= 6
            /\ u3 < 300

\* the final draw against the stage's base probability
random_apnea(self, sleep_stage, u4) ==
    LET time_since_last == self.current_epoch - self.last_apnea_epoch
        \* prob * 2000, so that the factor 1.5 stays an integer
        prob2 == base_probs(sleep_stage) * self.apnea_tendency
                 * (IF time_since_last > 20 THEN 4
                    ELSE IF time_since_last > 10 THEN 3 ELSE 2)
    IN  u4 * 2000 < prob2

simulate_apnea(self, sleep_stage, min_gap, u3, u4) ==
    IF apnea_blocked(self, sleep_stage, min_gap) THEN FALSE
    ELSE IF demo_apnea(self, u3) THEN TRUE
    ELSE random_apnea(self, sleep_stage, u4)

(***************************************************************************)
(* The apnea tracking of generate_epoch_data and its epoch increment.      *)
(***************************************************************************)
track_apnea_scales_tendency(self, is_apnea) ==
    IF is_apnea
    THEN [self EXCEPT !.consecutive_apneas = @ + 1,
                      !.last_apnea_epoch = self.current_epoch,
                      !.total_apneas = @ + 1,
                      !.apnea_tendency = (@ * 3) \div 2]
    ELSE [self EXCEPT !.consecutive_apneas = 0]


track_apnea(self, is_apnea) ==
    IF is_apnea
    THEN [self EXCEPT !.consecutive_apneas = @ + 1,
                      !.last_apnea_epoch = self.current_epoch,
                      !.total_apneas = @ + 1]
    ELSE [self EXCEPT !.consecutive_apneas = 0]

increment_epoch_skipped(self) == self

increment_epoch(self) == [self EXCEPT !.current_epoch = @ + 1]

(***************************************************************************)
(* DataSimulator.generate_eeg_signal.  The array `signal` has n_samples    *)
(* elements from np.random.randn(n_samples) on; every later step adds to   *)
(* it in place or replaces it by an array of the same length.  The calls   *)
(* that can raise are np.linspace and np.random.randn with a negative      *)
(* count, np.random.randint(low, high) with low >= high, and the index     *)
(* t_spindle[-1] of an empty array; butter and filtfilt raise inside the   *)
(* try block, which swallows the exception.                                *)
(***************************************************************************)
NoSignal == [raised |-> "", len |-> None, stage |-> None, apnea |-> FALSE,
             filtered |-> FALSE, raw |-> None, sample |-> None]

\* outcomes of np.random.poisson(2): no spindle, or some
SpindleCounts == {0, 2}

\* outcomes of np.random.randint(int(fs * 0.5), int(fs * 1.5)): the lowest
\* and the highest one, or None when the call raises
SpindleDurations(self) ==
    LET low == self.fs \div 2
        high == (3 * self.fs) \div 2
    IN  IF low >= high THEN {None} ELSE {low, high - 1}

\* butter(4, [0.3, 35], btype='band', fs=fs) needs 35 < fs / 2, and filtfilt
\* an input longer than its padding of 3 * 9 samples
filter_applies(self) == 70 < self.fs /\ 27 < self.n_samples

generate_eeg_signal(self, stage, n_spindles, spindle_duration) ==
    IF self.n_samples < 0
    THEN [NoSignal EXCEPT !.raised = "ValueError"]
    ELSE IF stage = 2 /\ n_spindles > 0 /\ spindle_duration = None
    THEN [NoSignal EXCEPT !.raised = "ValueError"]
    ELSE IF stage = 2 /\ n_spindles > 0 /\ spindle_duration = 0
    THEN [NoSignal EXCEPT !.raised = "IndexError"]
    ELSE [NoSignal EXCEPT !.len = self.n_samples, !.stage = stage,
                          !.filtered = filter_applies(self)]

(***************************************************************************)
(* DataSimulator.generate_hr_signal.  Heart rates are in tenths of a beat  *)
(* per minute.  Of the array the model follows the sample at one index i:  *)
(* d.i is that index (None: no sample is followed) and the other fields    *)
(* of d are the values, at that sample, of the random draws and of the     *)
(* sinusoids: uniform(-3, 3), 3 sin(..), 1.5 sin(..), the REM term         *)
(* 3 sin(..), uniform(4, 6), uniform(6, 10) and randn() * 0.5.             *)
(***************************************************************************)
\* the float nan: absorbing for arithmetic, kept by np.clip
NaN == 1000000

Plus(x, y) == IF x = NaN \/ y = NaN THEN NaN ELSE x + y

Times(x, y) == IF x = NaN \/ y = NaN THEN NaN ELSE x * y

HrLow == 450
HrHigh == 1100

clip(x, lo, hi) ==
    IF x = NaN THEN NaN ELSE IF x < lo THEN lo ELSE IF x > hi THEN hi ELSE x

stage_hr(stage) ==
    IF stage = 0 THEN 700
    ELSE IF stage = 1 THEN 650
    ELSE IF stage = 2 THEN 600
    ELSE IF stage = 3 THEN 580
    ELSE IF stage = 4 THEN 660
    ELSE 620

\* np.hanning(M)[k] at the ends and at the centre of the window
hanning(k, M) ==
    IF M = 1 THEN 1 ELSE IF k = 0 \/ k = M - 1 THEN 0 ELSE 1

\* np.exp(-np.arange(tachy_duration) / (fs // 4))[0]: numpy divides 0 by 0
\* to nan when fs // 4 is 0
tachy_curve_first(self) == IF self.fs \div 4 = 0 THEN NaN ELSE 1

\* the indexes followed: first and last sample, start and centre of the
\* apnea window, first sample after it
SampleIndexes(self) ==
    LET n == self.n_samples
        third == n \div 3
    IN  {i \in {0, third, third + third \div 2, 2 * third, n - 1} : 0 <= i /\ i < n}

Noise == {-45, 0, 45}

HrDraws(self) ==
    [i : IF SampleIndexes(self) = {} THEN {None} ELSE SampleIndexes(self),
     base_adjustment : {-30, 30},
     breathing : {-30, 30},
     slow : {-15, 15},
     rem : {-30, 30},
     brady_depth : {40, 60},
     tachy_height : {60, 100},
     noise : Noise]

\* the draws of a call whose samples are not followed
NoSample ==
    [i |-> None, base_adjustment |-> 0, breathing |-> 0, slow |-> 0, rem |-> 0,
     brady_depth |-> 40, tachy_height |-> 60, noise |-> 0]

generate_hr_signal_short(self, stage, is_apnea, d) ==
    IF self.n_samples < 0
    THEN [NoSignal EXCEPT !.raised = "ValueError"]
    ELSE [NoSignal EXCEPT !.len = self.fs, !.stage = stage,
                          !.apnea = is_apnea /\ stage # 0]

generate_hr_signal(self, stage, is_apnea, d) ==
    IF self.n_samples < 0
    THEN [NoSignal EXCEPT !.raised = "ValueError"]
    ELSE
      LET n == self.n_samples
          apnea_start == n \div 3
          apnea_duration == n \div 3
          tachy_start == apnea_start + apnea_duration
          tachy_duration == self.fs \div 3
          apnea == is_apnea /\ stage # 0
          brady == IF apnea /\ apnea_start <= d.i /\ d.i < tachy_start
                   THEN -(d.brady_depth * hanning(d.i - apnea_start, apnea_duration))
                   ELSE 0
          tachy == IF /\ apnea /\ tachy_start + tachy_duration < n
                      /\ tachy_duration > 0 /\ d.i = tachy_start
                   THEN Times(d.tachy_height, tachy_curve_first(self))
                   ELSE 0
          hr == stage_hr(stage) + d.base_adjustment + d.breathing + d.slow
                + (IF stage = 4 THEN d.rem ELSE 0) + brady
          raw == Plus(Plus(hr, tachy), d.noise)
      IN  [NoSignal EXCEPT !.len = n, !.stage = stage, !.apnea = apnea,
                           !.raw = IF d.i = None THEN None ELSE raw,
                           !.sample = IF d.i = None THEN None
                                      ELSE clip(raw, HrLow, HrHigh)]

(***************************************************************************)
(* DataSimulator.__init__ with reset_state: the constructed generator.     *)
(***************************************************************************)
Traits ==
    [wake_time : WakeTimes,
     deep_sleep_tendency : DeepSleepTendencies,
     rem_tendency : RemTendencies,
     apnea_tendency : ApneaTendencies,
     spindle_frequency : SpindleFrequencies,
     delta_amplitude : DeltaAmplitudes,
     stage_stability : StageStabilities]

NoRecord == [emitted |-> FALSE, epoch |-> None, stage |-> 0, is_apnea |-> FALSE,
             eeg |-> NoSignal, hr |-> NoSignal]

reset_state ==
    /\ current_epoch = 0
    /\ current_stage = 0
    /\ last_stage = 0
    /\ stage_duration = 0
    /\ sleep_onset_epoch = None
    /\ time_in_n1 = 0
    /\ time_in_n2 = 0
    /\ has_entered_n3 = FALSE
    /\ last_apnea_epoch = -20
    /\ consecutive_apneas = 0
    /\ total_apneas = 0

\* __init__(sampling_rate): fs, epoch_duration and n_samples; no value of
\* sampling_rate is rejected
init_config(sampling_rate) ==
    /\ fs = sampling_rate
    /\ epoch_duration = EpochDuration
    /\ n_samples = fs * epoch_duration

NoHistory ==
    /\ record = NoRecord
    /\ rec_apnea_run = 0
    /\ rec_apnea_count = 0
    /\ rec_last_apnea = None
    /\ rec_count = 0

(***************************************************************************)
(* main.py: the identifiers of the sessions, websocket connections and     *)
(* SHHS subjects the model follows, and the server before any request.     *)
(* "" stands for an absent entry.                                          *)
(***************************************************************************)
SessionIds == {"s1", "s2"}
Connections == {"ws1", "ws2"}
Subjects == {"x", "y"}

NoSession == [exists |-> FALSE, is_active |-> FALSE, user_id |-> "", total_epochs |-> None]

\* websocket_endpoint has not been called for the connection
NoWebSocket == [pc |-> "idle", session_id |-> "", using_real_data |-> FALSE,
                epoch_number |-> 0, data_simulator |-> None, sending_to |-> "",
                open |-> TRUE, raises |-> 0]

\* SHHSDataLoader.__init__
NoSubject == [current_subject |-> "", current_epoch |-> 0]

NoServer ==
    /\ sleep_sessions = [sid \in SessionIds |-> NoSession]
    /\ sleep_epochs = {}
    /\ active_connections = [sid \in SessionIds |-> ""]
    /\ websockets = [ws \in Connections |-> NoWebSocket]
    /\ shhs_loader = NoSubject

\* no method has been called directly
NoArgs == [stage |-> None, is_apnea |-> FALSE]

NoDirectCall ==
    /\ valid_result = <<>>
    /\ call_args = NoArgs
    /\ eeg_result = NoSignal
    /\ hr_result = NoSignal

\* the generator is the only user of np.random
NoGenerator == [constructed |-> FALSE]

SingleGenerator ==
    /\ seed = 0
    /\ rng = 0
    /\ other = NoGenerator

\* DataSimulator(), as main.py constructs it
Init ==
    /\ NoServer
    /\ init_config(DefaultSamplingRate)
    /\ traits \in Traits
    /\ reset_state
    /\ raised = ""
    /\ NoHistory
    /\ NoDirectCall
    /\ SingleGenerator

(***************************************************************************)
(* A state late in the night, past the horizon MaxEpoch: the generator     *)
(* with wake_time 10 after 210 calls of generate_epoch_data in which it    *)
(* fell asleep at epoch 10, went N1 -> N2 at epoch 14, N2 -> N3 at epoch   *)
(* 21, N3 -> N2 at epoch 43 and stayed in N2, with the apnea cluster of    *)
(* epochs 26 and 27.  REM needs more than 200 epochs of sleep, so it is    *)
(* reachable only from here.                                               *)
(***************************************************************************)
LateNight ==
    [current_epoch      |-> 210,
     current_stage      |-> 2,
     last_stage         |-> 2,
     stage_duration     |-> 166,
     sleep_onset_epoch  |-> 10,
     time_in_n1         |-> 0,
     time_in_n2         |-> 166,
     has_entered_n3     |-> TRUE,
     last_apnea_epoch   |-> 27,
     consecutive_apneas |-> 0,
     total_apneas       |-> 2]

InitLate ==
    /\ NoServer
    /\ init_config(DefaultSamplingRate)
    /\ traits \in {t \in Traits : t.wake_time = LateNight.sleep_onset_epoch}
    /\ raised = ""
    /\ rec_count = LateNight.current_epoch
    /\ NoDirectCall
    /\ SingleGenerator
    /\ current_epoch = LateNight.current_epoch
    /\ current_stage = LateNight.current_stage
    /\ last_stage = LateNight.last_stage
    /\ stage_duration = LateNight.stage_duration
    /\ sleep_onset_epoch = LateNight.sleep_onset_epoch
    /\ time_in_n1 = LateNight.time_in_n1
    /\ time_in_n2 = LateNight.time_in_n2
    /\ has_entered_n3 = LateNight.has_entered_n3
    /\ last_apnea_epoch = LateNight.last_apnea_epoch
    /\ consecutive_apneas = LateNight.consecutive_apneas
    /\ total_apneas = LateNight.total_apneas
    /\ record = [emitted |-> TRUE, epoch |-> LateNight.current_epoch - 1,
                 stage |-> LateNight.current_stage, is_apnea |-> FALSE,
                 eeg |-> generate_eeg_signal(Self, LateNight.current_stage, 0, None),
                 hr |-> generate_hr_signal(Self, LateNight.current_stage, FALSE, NoSample)]
    /\ rec_apnea_run = 0
    /\ rec_apnea_count = LateNight.total_apneas
    /\ rec_last_apnea = LateNight.last_apnea_epoch

(***************************************************************************)
(* Further states of the same generator (wake_time 10, asleep at epoch 10, *)
(* N1 -> N2 at epoch 14, apnea cluster of epochs 26 and 27), each the      *)
(* state after current_epoch calls of generate_epoch_data, from which the  *)
(* thresholds that lie past MaxEpoch are crossed within MaxMidTicks calls: *)
(*   NoDeepSleep      N2 kept since epoch 14, up to 57 epochs asleep;      *)
(*   DeepSleep        N2 -> N3 at epoch 21 and N3 kept for 37 epochs;      *)
(*   LongRem          as LateNight, N2 -> REM at epoch 347, REM kept for   *)
(*                    19 epochs, up to 357 epochs asleep;                  *)
(*   LateNoDeepSleep  N2 kept since epoch 14, up to 290 epochs asleep;     *)
(*   AfterDeepSleep   as LateNight (N3 from epoch 21 to 43), back in N2    *)
(*                    for 6 epochs, 40 epochs asleep.                      *)
(***************************************************************************)
NoDeepSleep ==
    [current_epoch      |-> 67,
     current_stage      |-> 2,
     last_stage         |-> 2,
     stage_duration     |-> 52,
     sleep_onset_epoch  |-> 10,
     time_in_n1         |-> 0,
     time_in_n2         |-> 52,
     has_entered_n3     |-> FALSE,
     last_apnea_epoch   |-> 27,
     consecutive_apneas |-> 0,
     total_apneas       |-> 2]

DeepSleep ==
    [current_epoch      |-> 59,
     current_stage      |-> 3,
     last_stage         |-> 3,
     stage_duration     |-> 37,
     sleep_onset_epoch  |-> 10,
     time_in_n1         |-> 0,
     time_in_n2         |-> 0,
     has_entered_n3     |-> TRUE,
     last_apnea_epoch   |-> 27,
     consecutive_apneas |-> 0,
     total_apneas       |-> 2]

LongRem ==
    [current_epoch      |-> 367,
     current_stage      |-> 4,
     last_stage         |-> 4,
     stage_duration     |-> 19,
     sleep_onset_epoch  |-> 10,
     time_in_n1         |-> 0,
     time_in_n2         |-> 0,
     has_entered_n3     |-> TRUE,
     last_apnea_epoch   |-> 27,
     consecutive_apneas |-> 0,
     total_apneas       |-> 2]

LateNoDeepSleep ==
    [current_epoch      |-> 300,
     current_stage      |-> 2,
     last_stage         |-> 2,
     stage_duration     |-> 285,
     sleep_onset_epoch  |-> 10,
     time_in_n1         |-> 0,
     time_in_n2         |-> 285,
     has_entered_n3     |-> FALSE,
     last_apnea_epoch   |-> 27,
     consecutive_apneas |-> 0,
     total_apneas       |-> 2]

AfterDeepSleep ==
    [current_epoch      |-> 50,
     current_stage      |-> 2,
     last_stage         |-> 2,
     stage_duration     |-> 6,
     sleep_onset_epoch  |-> 10,
     time_in_n1         |-> 0,
     time_in_n2         |-> 6,
     has_entered_n3     |-> TRUE,
     last_apnea_epoch   |-> 27,
     consecutive_apneas |-> 0,
     total_apneas       |-> 2]

MidNights == {NoDeepSleep, DeepSleep, LongRem, LateNoDeepSleep, AfterDeepSleep}

\* the generator in the state c, its last record the one of epoch
\* c.current_epoch - 1
resumed(c) ==
    /\ NoServer
    /\ init_config(DefaultSamplingRate)
    /\ traits \in {t \in Traits : t.wake_time = c.sleep_onset_epoch}
    /\ raised = ""
    /\ rec_count = c.current_epoch
    /\ NoDirectCall
    /\ SingleGenerator
    /\ current_epoch = c.current_epoch
    /\ current_stage = c.current_stage
    /\ last_stage = c.last_stage
    /\ stage_duration = c.stage_duration
    /\ sleep_onset_epoch = c.sleep_onset_epoch
    /\ time_in_n1 = c.time_in_n1
    /\ time_in_n2 = c.time_in_n2
    /\ has_entered_n3 = c.has_entered_n3
    /\ last_apnea_epoch = c.last_apnea_epoch
    /\ consecutive_apneas = c.consecutive_apneas
    /\ total_apneas = c.total_apneas
    /\ record = [emitted |-> TRUE, epoch |-> c.current_epoch - 1,
                 stage |-> c.current_stage, is_apnea |-> FALSE,
                 eeg |-> generate_eeg_signal(Self, c.current_stage, 0, None),
                 hr |-> generate_hr_signal(Self, c.current_stage, FALSE, NoSample)]
    /\ rec_apnea_run = 0
    /\ rec_apnea_count = c.total_apneas
    /\ rec_last_apnea = c.last_apnea_epoch

InitMidNight == \E c \in MidNights : resumed(c)

\* the epochs the model generates: the first MaxEpoch of a session,
\* MaxLateTicks from the late-night state on and MaxMidTicks from each of
\* the other states on
InHorizon(epoch) ==
    \/ epoch < MaxEpoch
    \/ LateNight.current_epoch <= epoch /\ epoch < LateNight.current_epoch + MaxLateTicks
    \/ \E c \in MidNights :
            c.current_epoch <= epoch /\ epoch < c.current_epoch + MaxMidTicks

(***************************************************************************)
(* DataSimulator.generate_epoch_data, one tick of the session: the stage   *)
(* transition, the apnea decision on the stage just computed, the update   *)
(* of the apnea tracking, then the epoch increment.  The returned stage    *)
(* and apnea flag are kept in `record`.                                    *)
(***************************************************************************)
\* the body of generate_epoch_data from the apnea tracking on, given the
\* object after simulate_sleep_stage and the apnea decision: the object it
\* leaves, the exception it raises or the tuple it returns
finish_epoch(self1, is_apnea, n_spindles, spindle_duration) ==
    LET stage == self1.current_stage
        self2 == track_apnea(self1, is_apnea)
        eeg == generate_eeg_signal(self2, stage, n_spindles, spindle_duration)
        hr == generate_hr_signal(self2, stage, is_apnea, NoSample)
    IN  IF eeg.raised # ""
        THEN [self |-> self2, raised |-> eeg.raised, stage |-> stage,
              is_apnea |-> is_apnea, eeg |-> NoSignal, hr |-> NoSignal]
        ELSE IF hr.raised # ""
        THEN [self |-> self2, raised |-> hr.raised, stage |-> stage,
              is_apnea |-> is_apnea, eeg |-> NoSignal, hr |-> NoSignal]
        ELSE [self |-> increment_epoch(self2), raised |-> "", stage |-> stage,
              is_apnea |-> is_apnea, eeg |-> eeg, hr |-> hr]

\* generate_epoch_data as a function of the random draws d
epoch_result(self, d) ==
    LET self1 == simulate_sleep_stage(self, d.u1, d.u2)
        is_apnea == simulate_apnea(self1, self1.current_stage, d.min_gap, d.u3, d.u4)
    IN  finish_epoch(self1, is_apnea, d.n_spindles, d.spindle_duration)

\* the outcomes of generate_epoch_data over all draws
epoch_outcomes_stale_stage(self) ==
    UNION {UNION {{finish_epoch(self1, is_apnea, n_spindles, spindle_duration) :
                       n_spindles \in SpindleCounts,
                       spindle_duration \in SpindleDurations(self1)} :
                  is_apnea \in {simulate_apnea(self1, self.current_stage, min_gap, u3, u4) :
                                    min_gap \in MinGaps, u3 \in Draws, u4 \in Draws}} :
           self1 \in {simulate_sleep_stage(self, u1, u2) : u1 \in Draws, u2 \in Draws}}

epoch_outcomes(self) ==
    UNION {UNION {{finish_epoch(self1, is_apnea, n_spindles, spindle_duration) :
                       n_spindles \in SpindleCounts,
                       spindle_duration \in SpindleDurations(self1)} :
                  is_apnea \in {simulate_apnea(self1, self1.current_stage, min_gap, u3, u4) :
                                    min_gap \in MinGaps, u3 \in Draws, u4 \in Draws}} :
           self1 \in {simulate_sleep_stage(self, u1, u2) : u1 \in Draws, u2 \in Draws}}

traits_of(self) ==
    [wake_time |-> self.wake_time,
     deep_sleep_tendency |-> self.deep_sleep_tendency,
     rem_tendency |-> self.rem_tendency,
     apnea_tendency |-> self.apnea_tendency,
     spindle_frequency |-> self.spindle_frequency,
     delta_amplitude |-> self.delta_amplitude,
     stage_stability |-> self.stage_stability]

\* the object left by a call becomes the state of the generator
store(self) ==
    /\ fs' = self.fs
    /\ epoch_duration' = self.epoch_duration
    /\ n_samples' = self.n_samples
    /\ traits' = traits_of(self)
    /\ current_epoch' = self.current_epoch
    /\ current_stage' = self.current_stage
    /\ last_stage' = self.last_stage
    /\ stage_duration' = self.stage_duration
    /\ sleep_onset_epoch' = self.sleep_onset_epoch
    /\ time_in_n1' = self.time_in_n1
    /\ time_in_n2' = self.time_in_n2
    /\ has_entered_n3' = self.has_entered_n3
    /\ last_apnea_epoch' = self.last_apnea_epoch
    /\ consecutive_apneas' = self.consecutive_apneas
    /\ total_apneas' = self.total_apneas

\* the outcome of one call: the object, the exception, and when the call
\* returned the tuple handed to the caller
deliver(out) ==
    /\ store(out.self)
    /\ raised' = out.raised
    /\ IF out.raised = ""
       THEN /\ record' = [emitted |-> TRUE, epoch |-> current_epoch,
                          stage |-> out.stage, is_apnea |-> out.is_apnea,
                          eeg |-> out.eeg, hr |-> out.hr]
            /\ rec_apnea_run' = IF out.is_apnea THEN rec_apnea_run + 1 ELSE 0
            /\ rec_apnea_count' = IF out.is_apnea THEN rec_apnea_count + 1
                                  ELSE rec_apnea_count
            /\ rec_last_apnea' = IF out.is_apnea THEN current_epoch ELSE rec_last_apnea
            /\ rec_count' = rec_count + 1
       ELSE UNCHANGED <<record, rec_apnea_run, rec_apnea_count, rec_last_apnea, rec_count>>

generate_epoch_data ==
    /\ InHorizon(current_epoch)
    /\ raised = ""
    /\ \E out \in epoch_outcomes(Self) :
            /\ out.is_apnea => total_apneas < MaxApneas
            /\ deliver(out)
    /\ UNCHANGED <<valid_result, call_args, eeg_result, hr_result, seed, rng, other, server_vars>>

Next == generate_epoch_data

Spec == (Init \/ InitLate \/ InitMidNight) /\ [][Next]_vars

(***************************************************************************)
(* DataSimulator(sampling_rate) for the sampling rates a caller may pass,  *)
(* followed over its first epochs up to the first call that raises.        *)
(***************************************************************************)
MaxRateEpoch == 18

InitRates ==
    /\ NoServer
    /\ \E sampling_rate \in SamplingRates : init_config(sampling_rate)
    /\ traits \in {t \in Traits : t.wake_time = WakeTimeLow}
    /\ reset_state
    /\ raised = ""
    /\ NoHistory
    /\ NoDirectCall
    /\ SingleGenerator

generate_epoch_data_at_rate ==
    /\ current_epoch < MaxRateEpoch
    /\ raised = ""
    /\ \E out \in epoch_outcomes(Self) :
            /\ out.is_apnea => total_apneas < MaxApneas
            /\ deliver(out)
    /\ UNCHANGED <<valid_result, call_args, eeg_result, hr_result, seed, rng, other, server_vars>>

NextRates == generate_epoch_data_at_rate

SpecRates == InitRates /\ [][NextRates]_vars

(***************************************************************************)
(* Direct calls of get_valid_next_stages on arbitrary generator states     *)
(* (the function only reads current_stage, stage_duration, current_epoch,  *)
(* sleep_onset_epoch and has_entered_n3).                                  *)
(***************************************************************************)
InitValid ==
    /\ NoServer
    /\ init_config(DefaultSamplingRate)
    /\ raised = ""
    /\ SingleGenerator
    /\ traits \in {t \in Traits : t.wake_time = WakeTimeLow}
    /\ current_stage \in Stages
    /\ last_stage = current_stage
    /\ stage_duration \in 0..MaxDuration
    /\ \/ sleep_onset_epoch = None /\ current_epoch \in 0..traits.wake_time
       \/ sleep_onset_epoch = traits.wake_time
          /\ current_epoch \in traits.wake_time..(traits.wake_time + MaxAsleep)
    /\ has_entered_n3 \in BOOLEAN
    /\ time_in_n1 = 0
    /\ time_in_n2 = 0
    /\ last_apnea_epoch = -20
    /\ consecutive_apneas = 0
    /\ total_apneas = 0
    /\ NoHistory
    /\ NoDirectCall

\* the variables of the generator object and of its history
object_vars ==
    <<fs, epoch_duration, n_samples,
      traits, current_epoch, current_stage, last_stage, stage_duration,
      sleep_onset_epoch, time_in_n1, time_in_n2, has_entered_n3,
      last_apnea_epoch, consecutive_apneas, total_apneas,
      record, rec_apnea_run, rec_apnea_count, rec_last_apnea, rec_count, raised>>

call_get_valid_next_stages ==
    /\ valid_result = <<>>
    /\ valid_result' = get_valid_next_stages(Self, current_stage)
    /\ UNCHANGED <<object_vars, call_args, eeg_result, hr_result, seed, rng, other, server_vars>>

NextValid == call_get_valid_next_stages

SpecValid == InitValid /\ [][NextValid]_vars

(***************************************************************************)
(* Direct calls of generate_eeg_signal and generate_hr_signal on a         *)
(* constructed generator, for every stage and apnea flag.                  *)
(***************************************************************************)
InitSignal ==
    /\ NoServer
    /\ \E sampling_rate \in SamplingRates : init_config(sampling_rate)
    /\ traits \in {t \in Traits : t.wake_time = WakeTimeLow}
    /\ reset_state
    /\ raised = ""
    /\ NoHistory
    /\ valid_result = <<>>
    /\ call_args \in [stage : Stages, is_apnea : BOOLEAN]
    /\ eeg_result = NoSignal
    /\ hr_result = NoSignal
    /\ SingleGenerator

call_generate_eeg_signal ==
    /\ eeg_result = NoSignal
    /\ eeg_result' \in {generate_eeg_signal(Self, call_args.stage, n_spindles, spindle_duration) :
                            n_spindles \in SpindleCounts,
                            spindle_duration \in SpindleDurations(Self)}
    /\ UNCHANGED <<object_vars, valid_result, call_args, hr_result, seed, rng, other, server_vars>>

call_generate_hr_signal ==
    /\ hr_result = NoSignal
    /\ hr_result' \in {generate_hr_signal(Self, call_args.stage, call_args.is_apnea, d) :
                           d \in HrDraws(Self)}
    /\ UNCHANGED <<object_vars, valid_result, call_args, eeg_result, seed, rng, other, server_vars>>

NextSignal == call_generate_eeg_signal \/ call_generate_hr_signal

SpecSignal == InitSignal /\ [][NextSignal]_vars

(***************************************************************************)
(* Two generators of one server process.  Every draw of every              *)
(* DataSimulator comes from the module-level np.random stream, which is a  *)
(* fixed sequence once seeded.  The stream is followed in blocks, one per  *)
(* call that draws from it (a construction or a generate_epoch_data): rng  *)
(* is the number of blocks taken so far, and the values a call draws are   *)
(* those of the block it starts at.                                        *)
(***************************************************************************)
Seeds == {1, 2}
\* epochs of the first generator and calls of the second one
MaxSharedEpoch == 13
MaxOtherCalls == 8

\* the j-th value of block k of the stream seeded with sd
stream(sd, k, j) == ((sd + 3 * k + 5 * j) * (k + 7) + j * j) % 11

uniform(sd, k, j) == IF stream(sd, k, j) % 2 = 0 THEN 0 ELSE 999

block_draws(sd, k) ==
    [u1 |-> uniform(sd, k, 1),
     u2 |-> uniform(sd, k, 2),
     min_gap |-> 4 + (stream(sd, k, 3) % 4),
     u3 |-> uniform(sd, k, 4),
     u4 |-> uniform(sd, k, 5),
     n_spindles |-> stream(sd, k, 6) % 5,
     spindle_duration |-> DefaultSamplingRate \div 2 + stream(sd, k, 7)]

block_traits(sd, k) ==
    [wake_time |-> WakeTimeLow + (stream(sd, k, 1) % 3),
     deep_sleep_tendency |-> 1000,
     rem_tendency |-> 1000,
     apnea_tendency |-> 1000,
     spindle_frequency |-> 900,
     delta_amplitude |-> 1000,
     stage_stability |-> 1000]

\* the object DataSimulator(sampling_rate) builds when it draws the traits tr
new_object(sampling_rate, tr) ==
    [fs                  |-> sampling_rate,
     epoch_duration      |-> EpochDuration,
     n_samples           |-> sampling_rate * EpochDuration,
     deep_sleep_tendency |-> tr.deep_sleep_tendency,
     rem_tendency        |-> tr.rem_tendency,
     apnea_tendency      |-> tr.apnea_tendency,
     wake_time           |-> tr.wake_time,
     spindle_frequency   |-> tr.spindle_frequency,
     delta_amplitude     |-> tr.delta_amplitude,
     stage_stability     |-> tr.stage_stability,
     current_epoch       |-> 0,
     current_stage       |-> 0,
     last_stage          |-> 0,
     stage_duration      |-> 0,
     sleep_onset_epoch   |-> None,
     time_in_n1          |-> 0,
     time_in_n2          |-> 0,
     has_entered_n3      |-> FALSE,
     last_apnea_epoch    |-> -20,
     consecutive_apneas  |-> 0,
     total_apneas        |-> 0]

\* np.random.seed(seed); DataSimulator()
InitShared ==
    /\ NoServer
    /\ seed \in Seeds
    /\ rng = 1
    /\ other = NoGenerator
    /\ init_config(DefaultSamplingRate)
    /\ traits = block_traits(seed, 0)
    /\ reset_state
    /\ raised = ""
    /\ NoHistory
    /\ NoDirectCall

\* generate_epoch_data of the first generator
generate_epoch_data_shared ==
    /\ current_epoch < MaxSharedEpoch
    /\ raised = ""
    /\ deliver(epoch_result(Self, block_draws(seed, rng)))
    /\ rng' = rng + 1
    /\ UNCHANGED <<valid_result, call_args, eeg_result, hr_result, seed, other, server_vars>>

\* DataSimulator() for another session
construct_other ==
    /\ ~other.constructed
    /\ other' = [constructed |-> TRUE, calls |-> 0,
                 self |-> new_object(DefaultSamplingRate, block_traits(seed, rng))]
    /\ rng' = rng + 1
    /\ UNCHANGED <<object_vars, valid_result, call_args, eeg_result, hr_result, seed, server_vars>>

\* generate_epoch_data of the other session's generator
generate_epoch_data_other ==
    /\ other.constructed
    /\ other.calls < MaxOtherCalls
    /\ other' = [other EXCEPT !.calls = @ + 1,
                              !.self = epoch_result(@, block_draws(seed, rng)).self]
    /\ rng' = rng + 1
    /\ UNCHANGED <<object_vars, valid_result, call_args, eeg_result, hr_result, seed, server_vars>>

NextShared ==
    \/ generate_epoch_data_shared
    \/ construct_other
    \/ generate_epoch_data_other

SpecShared == InitShared /\ [][NextShared]_vars

\* the outcome of the k-th generate_epoch_data of the first generator when
\* no other generator draws from the stream
RECURSIVE solo_run(_, _)
solo_run(sd, k) ==
    IF k = 0
    THEN [self |-> new_object(DefaultSamplingRate, block_traits(sd, 0)), raised |-> "",
          stage |-> 0, is_apnea |-> FALSE, eeg |-> NoSignal, hr |-> NoSignal]
    ELSE CHOOSE out \in {epoch_result(before.self, block_draws(sd, k)) :
                             before \in {solo_run(sd, k - 1)}} : TRUE

(***************************************************************************)
(* backend/main.py.  The endpoints start_session and end_session contain   *)
(* no await, so each runs as one step.  websocket_endpoint suspends at     *)
(* websocket.close, at the send of send_to_session and at asyncio.sleep;   *)
(* `pc` is the await a call is suspended at:                               *)
(*   "idle"        not called yet;                                         *)
(*   "closing"     await websocket.close (session not found);              *)
(*   "greeting"    the send of the "connected" message;                    *)
(*   "sending"     the send of an epoch update;                            *)
(*   "sleeping"    asyncio.sleep at the end of an iteration;               *)
(*   "error_sleep" asyncio.sleep(1) after an iteration that raised;        *)
(*   "done"        returned, the finally block has run.                    *)
(* A row of sleep_epochs carries, besides session_id and epoch_number, the *)
(* connection whose loop committed it and, for real data, the subject and  *)
(* the loader epoch it was read from.                                      *)
(***************************************************************************)
\* epochs a monitoring loop commits while several connections are followed
MaxLoopEpochs == 2
\* epochs of a recording held by the SHHS loader
RecordingLength == 3
\* iterations of one monitoring loop that raise
MaxRaises == 1

\* `if not using_real_data and epoch_number >= 200`
DemoEpochLimit == 200

session_epochs(sid) == {e \in sleep_epochs : e.session_id = sid}

\* ConnectionManager.disconnect
disconnect(connections, sid) == [connections EXCEPT ![sid] = ""]

\* POST /api/session/start: the SHHS loader exists and loads the subject
\* when real data is asked for
start_session(sid, use_real_data, subject_id) ==
    /\ ~sleep_sessions[sid].exists
    /\ shhs_loader' = IF use_real_data
                      THEN [current_subject |-> subject_id, current_epoch |-> 0]
                      ELSE shhs_loader
    /\ sleep_sessions' = [sleep_sessions EXCEPT ![sid] =
           [exists |-> TRUE, is_active |-> TRUE,
            user_id |-> IF use_real_data THEN subject_id ELSE "demo_user",
            total_epochs |-> None]]
    /\ UNCHANGED <<sleep_epochs, active_connections, websockets, simulator_vars>>

\* POST /api/session/{session_id}/end: is_active = False is committed, then
\* the summary is computed from the epochs of the session
end_session(sid) ==
    /\ sleep_sessions[sid].exists
    /\ sleep_sessions' = [sleep_sessions EXCEPT ![sid] =
           [@ EXCEPT !.is_active = FALSE,
                     !.total_epochs = Cardinality(session_epochs(sid))]]
    /\ UNCHANGED <<sleep_epochs, active_connections, websockets, shhs_loader,
                   simulator_vars>>

\* websocket_endpoint up to its first suspension after manager.connect
ws_connect(ws, sid) ==
    /\ websockets[ws].pc = "idle"
    /\ active_connections' = [active_connections EXCEPT ![sid] = ws]
    /\ websockets' = [websockets EXCEPT ![ws] =
           IF ~sleep_sessions[sid].exists
           THEN [@ EXCEPT !.pc = "closing", !.session_id = sid]
           ELSE [@ EXCEPT !.pc = "greeting", !.session_id = sid,
                          !.using_real_data = sleep_sessions[sid].user_id # "demo_user",
                          !.data_simulator = 0,
                          !.sending_to = ws]]
    /\ UNCHANGED <<sleep_sessions, sleep_epochs, shhs_loader, simulator_vars>>

\* the session was not found: websocket.close returned, finally block
ws_close(ws) ==
    /\ websockets[ws].pc = "closing"
    /\ websockets' = [websockets EXCEPT ![ws].pc = "done"]
    /\ active_connections' = disconnect(active_connections, websockets[ws].session_id)
    /\ UNCHANGED <<sleep_sessions, sleep_epochs, shhs_loader, simulator_vars>>

\* the client side of the connection goes away
client_close(ws) ==
    /\ websockets[ws].pc \notin {"idle", "done"}
    /\ websockets[ws].open
    /\ websockets' = [websockets EXCEPT ![ws].open = FALSE]
    /\ UNCHANGED <<sleep_sessions, sleep_epochs, active_connections, shhs_loader,
                   simulator_vars>>

\* ConnectionManager.send_to_session after send_json: the connections left.
\* A send to a closed client fails, and the entry of the session is removed
\* when the text of the exception has "WebSocket" or "closed" in it.
after_send(w) ==
    IF websockets[w.sending_to].open
    THEN {active_connections}
    ELSE {active_connections, disconnect(active_connections, w.session_id)}

\* the auto-stop of demo mode at the end of an iteration
demo_limit_reached_late(w) ==
    ~w.using_real_data /\ w.epoch_number > DemoEpochLimit

demo_limit_reached(w) ==
    ~w.using_real_data /\ w.epoch_number >= DemoEpochLimit

\* db.refresh(session) and the test of is_active at the top of an iteration
session_stopped_never(w) == FALSE

session_stopped(w) == ~sleep_sessions[w.session_id].is_active

\* the data of the next epoch: shhs_loader.get_epoch_data() of the one
\* loader of the process, or generate_epoch_data() of the simulator of the
\* call
next_epoch(w) ==
    IF w.using_real_data
    THEN IF shhs_loader.current_subject = "" \/ shhs_loader.current_epoch >= RecordingLength
         THEN [found |-> FALSE, subject |-> "", source_epoch |-> None,
               loader |-> shhs_loader, simulator |-> w.data_simulator]
         ELSE [found |-> TRUE, subject |-> shhs_loader.current_subject,
               source_epoch |-> shhs_loader.current_epoch,
               loader |-> [shhs_loader EXCEPT !.current_epoch = @ + 1],
               simulator |-> w.data_simulator]
    ELSE [found |-> TRUE, subject |-> "", source_epoch |-> None,
          loader |-> shhs_loader, simulator |-> w.data_simulator + 1]

\* one iteration of the monitoring loop, from the return of the await the
\* call was suspended at to its next await or to the end of the call
monitoring_step(ws) ==
    LET w == websockets[ws]
        sid == w.session_id
    IN
    /\ w.pc \in {"greeting", "sleeping", "error_sleep"}
    /\ \E connections \in (IF w.pc = "greeting" THEN after_send(w) ELSE {active_connections}),
          raise \in (IF w.raises < MaxRaises THEN BOOLEAN ELSE {FALSE}) :
          LET data == next_epoch(w)
          IN  IF \/ w.pc = "sleeping" /\ demo_limit_reached(w)
                 \/ session_stopped(w)
                 \/ ~data.found
              THEN \* break, then the finally block
                   /\ websockets' = [websockets EXCEPT ![ws].pc = "done"]
                   /\ active_connections' = disconnect(connections, sid)
                   /\ UNCHANGED <<sleep_epochs, shhs_loader>>
              ELSE IF raise
              THEN \* a prediction raises: except Exception, asyncio.sleep(1)
                   /\ websockets' = [websockets EXCEPT ![ws] =
                          [@ EXCEPT !.pc = "error_sleep", !.raises = @ + 1,
                                    !.data_simulator = data.simulator]]
                   /\ active_connections' = connections
                   /\ shhs_loader' = data.loader
                   /\ UNCHANGED sleep_epochs
              ELSE /\ sleep_epochs' = sleep_epochs \cup
                          {[session_id |-> sid, epoch_number |-> w.epoch_number,
                            connection |-> ws, subject |-> data.subject,
                            source_epoch |-> data.source_epoch]}
                   /\ shhs_loader' = data.loader
                   /\ IF connections[sid] = ""
                      THEN /\ websockets' = [websockets EXCEPT ![ws] =
                                  [@ EXCEPT !.pc = "done",
                                            !.data_simulator = data.simulator]]
                           /\ active_connections' = connections
                      ELSE /\ websockets' = [websockets EXCEPT ![ws] =
                                  [@ EXCEPT !.pc = "sending",
                                            !.data_simulator = data.simulator,
                                            !.sending_to = connections[sid]]]
                           /\ active_connections' = connections
    /\ UNCHANGED <<sleep_sessions, simulator_vars>>

\* the send of the update returned: epoch_number += 1, then asyncio.sleep
send_update(ws) ==
    /\ websockets[ws].pc = "sending"
    /\ \E connections \in after_send(websockets[ws]) :
           active_connections' = connections
    /\ websockets' = [websockets EXCEPT ![ws] =
           [@ EXCEPT !.pc = "sleeping", !.epoch_number = @ + 1]]
    /\ UNCHANGED <<sleep_sessions, sleep_epochs, shhs_loader, simulator_vars>>

\* the server before any request
InitServer ==
    /\ Init
    /\ traits.wake_time = WakeTimeLow

\* any interleaving of the requests of two clients: each session is started
\* once, for its own subject when it uses real data, and ended once; the
\* connection ws1 is the first to be opened; a loop is followed for
\* MaxLoopEpochs epochs, and to its end once its session is stopped
requested_subject(sid) == IF sid = "s1" THEN "x" ELSE "y"

any_start_session ==
    \E sid \in SessionIds, use_real_data \in BOOLEAN :
        start_session(sid, use_real_data, requested_subject(sid))

any_end_session ==
    \E sid \in SessionIds :
        /\ sleep_sessions[sid].is_active
        /\ end_session(sid)

any_ws_connect ==
    \E ws \in Connections, sid \in SessionIds :
        /\ ws = "ws2" => websockets["ws1"].pc # "idle"
        /\ ws_connect(ws, sid)

any_ws_close == \E ws \in Connections : ws_close(ws)

any_monitoring_step ==
    \E ws \in Connections :
        /\ websockets[ws].pc \in {"greeting", "sleeping", "error_sleep"}
        /\ IF websockets[ws].epoch_number < MaxLoopEpochs THEN TRUE
           ELSE session_stopped(websockets[ws])
        /\ monitoring_step(ws)

any_send_update == \E ws \in Connections : send_update(ws)

NextServer ==
    \/ any_start_session
    \/ any_end_session
    \/ any_ws_connect
    \/ any_ws_close
    \/ any_monitoring_step
    \/ any_send_update

SpecServer == InitServer /\ [][NextServer]_vars

\* one demo session and one connection to it, over the whole loop
demo_start_session == start_session("s1", FALSE, "x")

demo_end_session == end_session("s1")

demo_ws_connect == ws_connect("ws1", "s1")

demo_ws_close == ws_close("ws1")

demo_client_close == client_close("ws1")

demo_monitoring_step == monitoring_step("ws1")

demo_send_update == send_update("ws1")

NextDemo ==
    \/ demo_start_session
    \/ demo_end_session
    \/ demo_ws_connect
    \/ demo_ws_close
    \/ demo_client_close
    \/ demo_monitoring_step
    \/ demo_send_update

SpecDemo == InitServer /\ [][NextDemo]_vars

(***************************************************************************)
(* Properties.                                                             *)
(***************************************************************************)

\* the minimum-duration floors and the stage changes of the transition table
MinDuration(s) ==
    IF s = N1 THEN 2 ELSE IF s = N2 THEN 3 ELSE IF s = N3 THEN 10
    ELSE IF s = REM THEN 5 ELSE 0

AllowedChanges ==
    {<<Wake, N1>>, <<N1, Wake>>, <<N1, N2>>, <<N2, N1>>,
     <<N2, N3>>, <<N2, REM>>, <<N3, N2>>, <<REM, N2>>}

\* C1: on every tick stage_duration is reset to 0 if and only if the stage
\* emitted by the tick differs from the stage before it, and otherwise it
\* increases by exactly 1.
C1_DurationTracksStageChange ==
    [][/\ (stage_duration' = 0) <=> (record'.stage # current_stage)
       /\ (record'.stage = current_stage) => (stage_duration' = stage_duration + 1)
       /\ current_stage' = record'.stage]_vars

C1_Witness ==
    /\ record.emitted /\ record.stage = N3 /\ last_stage = N2 /\ stage_duration = 0

\* C2: no tick changes the stage away from s while stage_duration is below
\* the minimum duration of s (Wake 0, N1 2, N2 3, N3 10, REM 5).
C2_NoChangeBelowFloor ==
    [][(record'.stage # current_stage) => (stage_duration >= MinDuration(current_stage))]_vars

C2_Witness ==
    /\ record.emitted /\ last_stage = N1 /\ current_stage = Wake /\ stage_duration = 0

\* C3: every change of stage between two consecutive emitted records is one
\* of Wake->N1, N1->Wake, N1->N2, N2->N1, N2->N3, N2->REM, N3->N2, REM->N2.
C3_OnlyTableChanges ==
    [][(record.emitted /\ record'.stage # record.stage)
          => (<<record.stage, record'.stage>> \in AllowedChanges)]_vars

C3_Witness ==
    /\ record.emitted /\ last_stage = REM /\ current_stage = N2 /\ stage_duration = 0

\* C4: consecutive_apneas never exceeds 2, and no three consecutive emitted
\* records are all apnea records.
C4_AtMostTwoConsecutive ==
    consecutive_apneas <= 2 /\ rec_apnea_run <= 2

C4_Witness ==
    consecutive_apneas = 2 /\ rec_apnea_run = 2 /\ record.is_apnea

\* C5: an apnea record is either adjacent to the previous apnea record or at
\* least 4 epochs after it; the first apnea of a cluster comes at least 4
\* epochs after the last apnea of the cluster before it.
C5_ClusterGap ==
    [][(record'.is_apnea /\ rec_last_apnea # None)
          => /\ \/ record'.epoch - rec_last_apnea = 1
                \/ record'.epoch - rec_last_apnea >= 4
             /\ (rec_apnea_run = 0) => (record'.epoch - rec_last_apnea >= 4)]_vars

C5_Witness ==
    /\ record.is_apnea /\ rec_apnea_run = 1 /\ rec_apnea_count = 3
    /\ record.epoch = rec_last_apnea

\* C6: every emitted record whose stage is Wake has is_apnea false, so no
\* apnea is reported before sleep onset or on a tick that moves into Wake.
C6_NoApneaInWake ==
    /\ (record.emitted /\ record.stage = Wake) => ~record.is_apnea
    /\ (sleep_onset_epoch = None) => (~record.is_apnea /\ total_apneas = 0)

C6_Witness ==
    /\ record.emitted /\ record.stage = Wake /\ last_stage = N1
    /\ total_apneas < MaxApneas /\ consecutive_apneas = 0
    /\ record.epoch - last_apnea_epoch >= 8

\* C7: once sleep_onset_epoch is set, no later tick clears or changes it.
C7_OnsetSetOnce ==
    [][(sleep_onset_epoch # None) => (sleep_onset_epoch' = sleep_onset_epoch)]_vars

C7_Witness ==
    /\ sleep_onset_epoch # None /\ current_stage = Wake /\ stage_duration >= 1
    /\ current_epoch > traits.wake_time

\* C8: once has_entered_n3 is true it stays true.
C8_EnteredN3Stays ==
    [][has_entered_n3 => has_entered_n3']_vars

C8_Witness ==
    /\ has_entered_n3 /\ last_stage = N3 /\ current_stage = N2

\* C9: from a fresh generator with wake_time w the records of epochs 0..w-1
\* have stage Wake, the record of epoch w has stage N1, and sleep_onset_epoch
\* is set to exactly w on that tick.
C9_SleepOnsetAtWakeTime ==
    record.emitted =>
        /\ (record.epoch < traits.wake_time)
              => (record.stage = Wake /\ sleep_onset_epoch = None)
        /\ (record.epoch = traits.wake_time)
              => (record.stage = N1 /\ sleep_onset_epoch = traits.wake_time)

C9_Witness ==
    /\ record.emitted /\ traits.wake_time = 15 /\ record.epoch = 15
    /\ record.stage = N1 /\ sleep_onset_epoch = 15

\* C10: for stage N2 the valid-target set is {N2} while stage_duration < 3 and
\* otherwise {N1, N2}, plus N3 exactly when the time asleep exceeds 10, plus
\* REM exactly when the time asleep exceeds 180 and N3 has been entered.
TimeAsleep ==
    IF sleep_onset_epoch = None THEN 0 ELSE current_epoch - sleep_onset_epoch

C10_N2ValidTargets ==
    (valid_result # <<>> /\ current_stage = N2) =>
        SeqToSet(valid_result) =
            IF stage_duration < 3 THEN {N2}
            ELSE {N1, N2}
                 \cup (IF TimeAsleep > 10 THEN {N3} ELSE {})
                 \cup (IF TimeAsleep > 180 /\ has_entered_n3 THEN {REM} ELSE {})

C10_Witness ==
    /\ valid_result # <<>> /\ current_stage = N2 /\ stage_duration = 4
    /\ TimeAsleep = 5 /\ N3 \notin SeqToSet(valid_result)

\* C11: a tick whose apnea decision is taken outside a cluster
\* (consecutive_apneas = 0) at an epoch less than 4 after last_apnea_epoch
\* reports no apnea; after a single apnea at epoch 30 and none at 31, the
\* decisions at epochs 32 and 33 are false.
C11_NoApneaWithinGapOutsideCluster ==
    [][(consecutive_apneas = 0 /\ current_epoch - last_apnea_epoch < 4)
          => ~record'.is_apnea]_vars

C11_Witness ==
    /\ record.emitted /\ last_apnea_epoch = 30 /\ record.epoch = 32
    /\ record.stage # Wake /\ ~record.is_apnea /\ total_apneas < MaxApneas

\* C11 as stated: every tick whose epoch is less than 4 after
\* last_apnea_epoch reports no apnea, also the tick right after an apnea.
C11_NoApneaWithinGapOfFour ==
    [][(current_epoch - last_apnea_epoch < 4) => ~record'.is_apnea]_vars

\* C12: within one tick the stage transition comes first, the apnea decision
\* is taken on the stage that tick has just computed, the signals are
\* synthesised for that stage and that apnea flag, and the epoch is
\* incremented last: the sleep onset, the apnea decision and the
\* last_apnea_epoch update of the tick all use the epoch at which it started.
C12_TickOrder ==
    [][/\ record'.epoch = current_epoch
       /\ current_epoch' = current_epoch + 1
       /\ record'.stage = current_stage'
       /\ record'.is_apnea => (record'.stage # Wake /\ last_apnea_epoch' = current_epoch)
       /\ (sleep_onset_epoch = None /\ sleep_onset_epoch' # None)
             => (sleep_onset_epoch' = current_epoch)
       /\ record'.eeg.stage = record'.stage
       /\ record'.hr.stage = record'.stage
       /\ record'.hr.apnea = record'.is_apnea]_vars

C12_Witness ==
    /\ record.emitted /\ record.is_apnea /\ record.stage = N1 /\ last_stage = Wake
    /\ stage_duration = 0 /\ last_apnea_epoch = record.epoch
    /\ current_epoch = record.epoch + 1 /\ record.hr.apnea

\* C13: the epoch counter is 0 on a fresh generator and equals the number of
\* ticks made so far; every tick raises it by exactly 1 and the record of a
\* tick carries the epoch before the increment.
C13_EpochCountsTicks ==
    /\ current_epoch = rec_count
    /\ record.emitted => record.epoch = current_epoch - 1

C13_Witness ==
    /\ record.emitted /\ rec_count = 40 /\ current_epoch = 40

\* C14: no call of generate_epoch_data on a constructed generator raises.
C14_NoTickRaises ==
    raised = ""

\* C15: no generator with a non-positive number of samples per epoch exists
\* and returns an epoch.
C15_NoGeneratorWithoutSamples ==
    ~(n_samples <= 0 /\ rec_count > 0)

\* C18: no tick changes a trait: wake_time, the deep-sleep, REM and apnea
\* tendencies, spindle_frequency, delta_amplitude and stage_stability keep
\* the values drawn at construction.
C18_TraitsUnchanged ==
    [][traits' = traits]_vars

C18_Witness ==
    /\ record.emitted /\ record.is_apnea /\ has_entered_n3 /\ traits \in Traits

\* C19: the EEG and the HR waveform synthesised for an epoch have the same
\* length, fs * epoch_duration samples (3840 at the default rate), whatever
\* the stage and the apnea flag.
C19_SignalLengths ==
    (eeg_result.len # None /\ hr_result.len # None) =>
        /\ eeg_result.len = hr_result.len
        /\ hr_result.len = fs * epoch_duration
        /\ (fs = DefaultSamplingRate) => (hr_result.len = 3840)

C19_Witness ==
    /\ eeg_result.len = 3840 /\ hr_result.len = 3840
    /\ call_args.stage = N2 /\ call_args.is_apnea /\ hr_result.apnea

\* C20: every sample of the HR waveform lies between 45 and 110 beats per
\* minute; a sample that is below 45 before np.clip is returned as exactly
\* 45, and one above 110 as exactly 110.
C20_HrWithinLimits ==
    (hr_result.sample # None) =>
        /\ hr_result.sample # NaN
        /\ HrLow <= hr_result.sample /\ hr_result.sample <= HrHigh
        /\ (hr_result.raw < HrLow) => (hr_result.sample = HrLow)
        /\ (hr_result.raw > HrHigh /\ hr_result.raw # NaN) => (hr_result.sample = HrHigh)

\* C17: the records a generator returns do not depend on the calls made on
\* another generator: after its k-th tick the record is the one it returns
\* when it is the only generator drawing from the seeded stream.
C17_RecordsIndependentOfOthers ==
    record.emitted =>
        \A alone \in {solo_run(seed, rec_count)} :
            /\ record.stage = alone.stage
            /\ record.is_apnea = alone.is_apnea

\* C21: after every tick whose emitted stage is N3, the N2 -> N3 tick and the
\* ticks under the minimum duration of N3 included, has_entered_n3 is true
C21_EnteredN3OnEntry ==
    (record.emitted /\ record.stage = N3 /\ current_stage = N3) => has_entered_n3

\* C22: in every reachable state, whatever the draws, the stage returned by
\* get_next_stage is in the valid list of the current stage, so
\* simulate_sleep_stage keeps it; and a stage outside the valid list would
\* be replaced by the first entry of the list, which is never empty.
C22_PolicyWithinValid ==
    LET valid_stages == get_valid_next_stages(Self, current_stage)
    IN  /\ \A u1 \in Draws, u2 \in Draws :
               \A got \in {get_next_stage(Self, u1, u2)} :
                   /\ got.ret \in SeqToSet(get_valid_next_stages(got.self, current_stage))
                   /\ validate_transition(got.self, got.ret) = got.ret
        /\ Len(valid_stages) > 0
        /\ \A s \in Stages \ SeqToSet(valid_stages) :
               validate_transition(Self, s) = valid_stages[1]

C22_Witness ==
    /\ record.emitted /\ last_stage = N3 /\ current_stage = N2 /\ stage_duration = 0
    /\ validate_transition(Self, N3) = N2

\* C23: after sleep onset a tick taken in Wake keeps Wake while
\* stage_duration < 2 and gives N1 once stage_duration >= 2; stage_duration
\* in Wake never exceeds 2 after onset, so every arousal is back in N1
\* within three ticks.
C23_BoundedArousal ==
    [][(sleep_onset_epoch # None /\ current_stage = Wake) =>
          /\ stage_duration <= 2
          /\ (stage_duration < 2) => (record'.stage = Wake /\ stage_duration' <= 2)
          /\ (stage_duration >= 2) => (record'.stage = N1)]_vars

C23_Witness ==
    /\ record.emitted /\ last_stage = Wake /\ current_stage = N1
    /\ record.epoch > sleep_onset_epoch + 2 /\ sleep_onset_epoch # None

\* C24: in N1 no tick taken with stage_duration < 3 gives N2, a tick taken
\* with stage_duration >= 6 gives N2, and stage_duration never exceeds 6.
C24_N1Bounds ==
    [][(current_stage = N1) =>
          /\ stage_duration <= 6
          /\ (stage_duration < 3) => (record'.stage # N2)
          /\ (stage_duration >= 6) => (record'.stage = N2)]_vars

C24_Witness ==
    /\ record.emitted /\ current_stage = N1 /\ stage_duration = 6
    /\ current_epoch < MaxEpoch

\* C25: every tick that changes the stage to N3 is taken in N2 with
\* stage_duration > 5, has_entered_n3 false and more than 10 and less than
\* 60 epochs asleep (current_epoch - sleep_onset_epoch at that tick).
C25_N3EntryConditions ==
    [][(record'.stage = N3 /\ current_stage # N3) =>
          /\ current_stage = N2 /\ sleep_onset_epoch # None
          /\ 10 < TimeAsleep /\ TimeAsleep < 60
          /\ ~has_entered_n3
          /\ stage_duration > 5]_vars

C25_Witness ==
    /\ record.emitted /\ record.stage = N3 /\ stage_duration = 0
    /\ record.epoch - sleep_onset_epoch = 59

\* C26: every tick that changes the stage to REM is taken in N2 with
\* stage_duration > 10, has_entered_n3 true and more than 200 epochs asleep;
\* no record has stage REM while has_entered_n3 is false.
C26_RemEntryConditions ==
    [][/\ (record'.stage = REM /\ current_stage # REM) =>
             /\ current_stage = N2 /\ sleep_onset_epoch # None
             /\ TimeAsleep > 200
             /\ has_entered_n3
             /\ stage_duration > 10
       /\ (record'.stage = REM) => has_entered_n3']_vars

C26_Witness ==
    /\ record.emitted /\ record.stage = REM /\ stage_duration = 0
    /\ record.epoch - sleep_onset_epoch = 201 /\ has_entered_n3

\* C27: in N3 no tick taken with stage_duration <= 20 gives N2, a tick taken
\* with stage_duration > 40 gives N2, and stage_duration never exceeds 41.
C27_N3Bounds ==
    [][(current_stage = N3) =>
          /\ stage_duration <= 41
          /\ (stage_duration <= 20) => (record'.stage = N3)
          /\ (stage_duration > 40) => (record'.stage = N2)
          /\ (current_stage' = N3) => (stage_duration' <= 41)]_vars

C27_Witness ==
    /\ record.emitted /\ last_stage = N3 /\ current_stage = N2 /\ stage_duration = 0
    /\ record.epoch = DeepSleep.current_epoch + 41 - DeepSleep.stage_duration

\* the required minimum of REM at the current tick
MinRem == 10 + 10 * (TimeAsleep \div 180)

\* C28: in REM no tick taken with stage_duration <= 10 + 10 * floor(time
\* asleep / 180) gives N2, the time asleep being the one of that tick.
C28_NoRemExitBelowMinimum ==
    [][(current_stage = REM /\ stage_duration <= MinRem) => (record'.stage = REM)]_vars

C28_Witness ==
    /\ record.emitted /\ record.stage = REM /\ stage_duration = 23
    /\ TimeAsleep = 361 /\ MinRem = 30

\* C29: a tick taken in REM with stage_duration equal to the required
\* minimum of that tick plus 20 gives N2, so stage_duration in REM never
\* exceeds the required minimum plus 20.
C29_RemExitForcedAtMinimumPlus20 ==
    [][(current_stage = REM /\ stage_duration = MinRem + 20) => (record'.stage = N2)]_vars

\* C30: a tick taken at an epoch above 25 and below 50 with no apnea so far
\* and last_apnea_epoch at least 6 epochs back, whose stage is not Wake,
\* reports an apnea whatever the draws, the minimum-gap draw included.
C30_DemoApneaFloor ==
    [][(/\ 25 < current_epoch /\ current_epoch < 50
        /\ record'.stage # Wake
        /\ total_apneas = 0
        /\ current_epoch - last_apnea_epoch >= 6) => record'.is_apnea]_vars

C30_Witness ==
    /\ record.emitted /\ record.is_apnea /\ total_apneas = 1
    /\ record.epoch = 28 /\ last_stage = Wake /\ record.stage = N1

\* C31: after every tick consecutive_apneas is the length of the run of
\* apnea records ending at the latest record, total_apneas the number of
\* apnea records so far and last_apnea_epoch the epoch of the latest apnea
\* record (-20 while there is none); a tick without apnea leaves
\* total_apneas and last_apnea_epoch as they were.
C31_TrackingAgreesWithHistory ==
    [][/\ consecutive_apneas' = rec_apnea_run'
       /\ total_apneas' = rec_apnea_count'
       /\ last_apnea_epoch' = (IF rec_last_apnea' = None THEN -20 ELSE rec_last_apnea')
       /\ (~record'.is_apnea) =>
              (total_apneas' = total_apneas /\ last_apnea_epoch' = last_apnea_epoch)]_vars

\* C32: N3 is entered at most once: has_entered_n3 is true by the tick that
\* leaves N3, it stays true, and while it is true no tick taken outside N3
\* gives N3.
C32_N3EnteredOnce ==
    [][/\ (current_stage = N3 /\ record'.stage # N3) => has_entered_n3'
       /\ (has_entered_n3 /\ current_stage # N3) =>
              (has_entered_n3' /\ record'.stage # N3)]_vars

C32_Witness ==
    /\ record.emitted /\ has_entered_n3 /\ current_stage = N2 /\ last_stage = N2
    /\ stage_duration > 6 /\ TimeAsleep > 40 /\ TimeAsleep < 46

\* C33: once 60 epochs have been slept without N3 (has_entered_n3 false and
\* the stage not N3), every later record has stage Wake, N1 or N2.
C33_NoDeepSleepAfterWindow ==
    [][(/\ sleep_onset_epoch # None /\ TimeAsleep >= 60
        /\ ~has_entered_n3 /\ current_stage # N3) =>
          (record'.stage \in {Wake, N1, N2} /\ ~has_entered_n3')]_vars

C33_Witness ==
    /\ record.emitted /\ ~has_entered_n3 /\ record.stage = N2 /\ stage_duration > 5
    /\ TimeAsleep = 62

\* C34: a fresh generator has reported an apnea by its 30th tick whatever
\* the draws (the first tick above epoch 25 whose stage is not Wake reports
\* one, and that is epoch 29 at the latest), so every run of 50 ticks has
\* an apnea record among epochs 0..49.
C34_ApneaInFirstEpochs ==
    (rec_count >= 30) => (rec_apnea_count >= 1)

C34_Witness ==
    /\ rec_count = 30 /\ rec_apnea_count = 1 /\ rec_last_apnea = 29 /\ record.is_apnea

\* C35: the epochs persisted for one session id come from a single
\* connection (a single generator) and carry pairwise distinct epoch
\* numbers, under any interleaving of websocket connections.
C35_OneGeneratorPerSession ==
    \A e1 \in sleep_epochs, e2 \in sleep_epochs :
        (e1.session_id = e2.session_id) =>
            /\ e1.connection = e2.connection
            /\ (e1 # e2) => (e1.epoch_number # e2.epoch_number)

\* C36: once end_session has committed is_active = False for a session no
\* step adds an epoch to it, and the number of epochs its summary was
\* computed from is the number of epochs the session has.
C36_NoEpochAfterEnd ==
    [][\A sid \in SessionIds :
           (sleep_sessions[sid].exists /\ ~sleep_sessions[sid].is_active) =>
               /\ session_epochs(sid)' = session_epochs(sid)
               /\ sleep_sessions[sid].total_epochs = Cardinality(session_epochs(sid))]_vars

C36_Witness ==
    \E ws \in Connections :
        /\ websockets[ws].pc = "done" /\ websockets[ws].epoch_number = 1
        /\ ~websockets[ws].using_real_data
        /\ active_connections[websockets[ws].session_id] = ""
        /\ ~sleep_sessions[websockets[ws].session_id].is_active
        /\ sleep_sessions[websockets[ws].session_id].total_epochs = 1

\* C37: every epoch persisted for a real-data session was read from the
\* recording of the subject of that session, at the loader epoch equal to
\* its epoch number (0, 1, 2, ... in order), whatever the other sessions do.
C37_OwnRecordingInOrder ==
    \A e \in sleep_epochs :
        (sleep_sessions[e.session_id].user_id # "demo_user") =>
            /\ e.subject = sleep_sessions[e.session_id].user_id
            /\ e.source_epoch = e.epoch_number

\* C38: in demo mode a single connection commits at most 200 epochs, none
\* with an epoch number of 200 or more, sends at most 200 updates, and
\* the step taken after the sleep that follows the 200th update ends the
\* call without another epoch.
C38_DemoLoopStopsAt200 ==
    [][/\ Cardinality(sleep_epochs') <= DemoEpochLimit
       /\ \A e \in sleep_epochs' : e.epoch_number < DemoEpochLimit
       /\ websockets'["ws1"].epoch_number <= DemoEpochLimit
       /\ (websockets["ws1"].pc = "sleeping"
             /\ websockets["ws1"].epoch_number >= DemoEpochLimit) =>
              /\ websockets'["ws1"].pc \in {"sleeping", "done"}
              /\ sleep_epochs' = sleep_epochs]_vars

C38_Witness ==
    /\ websockets["ws1"].pc = "done" /\ websockets["ws1"].epoch_number = DemoEpochLimit
    /\ websockets["ws1"].raises = 0 /\ websockets["ws1"].open
    /\ Cardinality(sleep_epochs) = DemoEpochLimit /\ sleep_sessions["s1"].is_active

====
